---- MODULE Spec2Model ----
(***************************************************************************)
(* Model of code/python/D_CPLEX_Solver.py: robust_portfolio_optimisation   *)
(* and return_maximisation assemble a linear programme (variable names,    *)
(* bounds, objective, constraint rows) from rival scenario trees, hand it  *)
(* to Gurobi or CPLEX and read the result back.                            *)
(*                                                                         *)
(* Numbers are fixed point: the float x is the integer x * One.            *)
(* Names are the strings the code concatenates.                            *)
(***************************************************************************)
EXTENDS Integers, Sequences, FiniteSets, TLC

\* ------------------------------------------------------------------ bounds
MaxTrees == 2
MaxInstruments == 2
MaxDepth == 3

\* ------------------------------------------------- fixed point and floats
\* the float literal 1.0
One == 10000
\* cplex.infinity, the float 1e20
cplex_infinity == 2147483647
\* the literal 1e20 of var_bounds and z_bounds
Float1e20 == 2147483647

\* x * y on fixed-point numbers (exact on the values used here)
Mul(x, y) ==
    LET ax == IF x < 0 THEN -x ELSE x
        ay == IF y < 0 THEN -y ELSE y
        a == IF ax >= ay THEN x ELSE y
        b == IF ax >= ay THEN y ELSE x
    IN  (a \div One) * b + ((a % One) * b) \div One
\* x / y on fixed-point numbers
Div(x, y) == (x * One) \div y

\* ------------------------------------------------------- list helpers
RECURSIVE ConcatAll(_)
ConcatAll(ss) == IF Len(ss) = 0 THEN <<>> ELSE Head(ss) \o ConcatAll(Tail(ss))

RECURSIVE SumSeq(_)
SumSeq(s) == IF Len(s) = 0 THEN 0 ELSE Head(s) + SumSeq(Tail(s))

\* the elements of s that pass Test, in the order of s
Filter(s, Test(_)) == SelectSeq(s, Test)

Range(s) == {s[j] : j \in 1..Len(s)}

\* np.repeat(a, n) for a list a: every element n times
np_repeat(a, n) == ConcatAll([j \in 1..Len(a) |-> [c \in 1..n |-> a[j]]])

\* str(node)[:-1]
DropLast(s) == SubSeq(s, 1, Len(s) - 1)

\* s.find(sub) != -1
Contains(s, sub) ==
    \E j \in 1..(Len(s) - Len(sub) + 1) : SubSeq(s, j, j + Len(sub) - 1) = sub

\* ------------------------------------------------------------ the inputs
\* instruments_NYSE
InstrumentPool == <<"KO", "MSFT", "IBM", "AXP", "PG", "DIS", "INTC", "FDX", "ADM", "MAT">>

\* realised returns, fixed point
ReturnPool == <<10400, 9600, 11200, 10800, 8800>>

\* the nodes of one level of a tree with the given branching; the root is "0"
RECURSIVE LevelNodes(_, _)
LevelNodes(br, level) ==
    IF level = 1 THEN <<"0">>
    ELSE LET up == LevelNodes(br, level - 1)
         IN  ConcatAll([p \in 1..Len(up) |->
                 [d \in 1..br[level] |-> up[p] \o ToString(d - 1)]])

\* cumulative probability of a node: tree "1" splits evenly, the other trees
\* split the first stage 1/4 : 3/4 and evenly below
RECURSIVE CumProbability(_, _)
CumProbability(k, node) ==
    IF Len(node) = 1 THEN One
    ELSE IF Len(node) = 2 /\ k # "1"
         THEN (IF node = "00" THEN One \div 4 ELSE 3 * (One \div 4))
         ELSE CumProbability(k, DropLast(node)) \div 2

\* one scenario tree as a table: a row per node, level by level, with a
\* realised return per instrument column and the cumulative probability
TreeTable(kIdx, instr, br) ==
    LET nodes == ConcatAll([l \in 1..Len(br) |-> LevelNodes(br, l)])
    IN  [r \in 1..Len(nodes) |->
            [node |-> nodes[r],
             ret |-> [c \in 1..Len(instr) |->
                        ReturnPool[((3 * kIdx + 2 * r + c) % Len(ReturnPool)) + 1]],
             cum_probability |-> CumProbability(ToString(kIdx), nodes[r])]]

\* default arguments, the values of F_Run.py, and an asymmetric set
ParamSets ==
    { [cost_to_buy |-> 100, cost_to_sell |-> 100, beta |-> 9500,
       initial_wealth |-> One, return_target |-> 10800],
      [cost_to_buy |-> 100, cost_to_sell |-> 100, beta |-> 9900,
       initial_wealth |-> One, return_target |-> 10100],
      [cost_to_buy |-> 200, cost_to_sell |-> 500, beta |-> 9000,
       initial_wealth |-> 2 * One, return_target |-> 10800] }

\* the bounds a parameter set comes with: those of F_Run.py, and with the
\* asymmetric set three pairs that differ from each other
BoundsWith(p) ==
    IF p.cost_to_buy = p.cost_to_sell
    THEN [sell_bounds |-> << <<0>>, <<2000>> >>,
          buy_bounds |-> << <<0>>, <<2000>> >>,
          weight_bounds |-> << <<0>>, <<One>> >>]
    ELSE [sell_bounds |-> << <<100>>, <<3000>> >>,
          buy_bounds |-> << <<0>>, <<2000>> >>,
          weight_bounds |-> << <<500>>, <<One>> >>]

Solvers == {"gurobi", "cplex", "glpk"}
\* 'no', 'yes', and a value that is neither
Flags == {"no", "yes", "other"}
Functions == {"robust_portfolio_optimisation", "return_maximisation"}

VARIABLES
    scenarios_dict,     \* tree key -> table
    scenario_names,     \* the keys in dictionary order
    instruments, branching, initial_portfolio,
    sell_bounds, buy_bounds, weight_bounds,
    params,             \* cost_to_buy, cost_to_sell, beta, initial_wealth, return_target
    fn, solver, wcvar_minimizer, to_save,
    pc,
    scenario,           \* return_maximisation: index of the tree of the loop
    problem,            \* the cplex.Cplex() object
    submitted,          \* the backends that optimised the current problem
    outcome,            \* what the backend reported
    solution_available, \* CPLEX holds solution values
    solution,           \* which values: the solution vector CPLEX holds (0: none)
    objective_value, w_0_variables, w_0_values,
    min_return,         \* the 'return' of the scenario with the largest CVaR
    results,            \* return_maximisation: the results dictionary
    result,             \* what the call returned, or the exception it raised
    dir_exists,         \* results/<folder> exists
    dir_checked,        \* the call has run "if not os.path.exists: os.makedirs"
    lp_writes,          \* number of LP files written by the call
    previous            \* what the latest finished call of
                        \* robust_portfolio_optimisation was given and built

inputs == <<scenarios_dict, scenario_names, instruments, branching, initial_portfolio,
            sell_bounds, buy_bounds, weight_bounds, params>>
call == <<fn, solver, wcvar_minimizer, to_save>>
locals == <<objective_value, w_0_variables, w_0_values, min_return>>
vars == <<inputs, call, pc, scenario, problem, submitted, outcome, solution_available, solution, locals,
          results, result, dir_exists, dir_checked, lp_writes, previous>>

Unbound == [kind |-> "unbound", items |-> <<>>]
NaN == [kind |-> "nan", items |-> <<>>]
Number(what) == [kind |-> "number", items |-> <<what>>]
List(items) == [kind |-> "list", items |-> items]

EmptyProblem == [sense |-> "none", names |-> <<>>, obj |-> <<>>, lb |-> <<>>,
                 ub |-> <<>>, rows |-> <<>>]

Init ==
    /\ \E nt \in 1..MaxTrees, ni \in 1..MaxInstruments, depth \in 1..MaxDepth :
         LET instr == SubSeq(InstrumentPool, 1, ni)
             br == [l \in 1..depth |-> 2]
         IN  /\ scenario_names = [k \in 1..nt |-> ToString(k)]
             /\ instruments = instr
             /\ branching = br
             /\ scenarios_dict =
                  [key \in {ToString(k) : k \in 1..nt} |->
                     TreeTable(CHOOSE k \in 1..nt : ToString(k) = key, instr, br)]
             /\ initial_portfolio \in
                  { [j \in 1..ni |-> One \div ni], [j \in 1..ni |-> 0] }
    /\ params \in ParamSets
    /\ sell_bounds = BoundsWith(params).sell_bounds
    /\ buy_bounds = BoundsWith(params).buy_bounds
    /\ weight_bounds = BoundsWith(params).weight_bounds
    /\ dir_exists \in BOOLEAN
    /\ dir_checked = FALSE
    /\ fn = "none" /\ solver = "none" /\ wcvar_minimizer = "none" /\ to_save = "none"
    /\ pc = "idle"
    /\ scenario = 0
    /\ problem = EmptyProblem
    /\ submitted = <<>>
    /\ outcome = "none"
    /\ solution_available = FALSE
    /\ solution = 0
    /\ objective_value = Unbound /\ w_0_variables = Unbound /\ w_0_values = Unbound
    /\ min_return = Unbound
    /\ results = <<>>
    /\ result = [kind |-> "none"]
    /\ lp_writes = 0
    /\ previous = [kind |-> "none"]

\* the call: F_Run.py passes the data and picks the keyword arguments
Invoke ==
    /\ pc = "idle"
    /\ fn' \in Functions
    /\ solver' \in Solvers
    /\ wcvar_minimizer' \in Flags
    /\ to_save' \in Flags
    /\ (fn' = "return_maximisation" => wcvar_minimizer' = "no")
    /\ scenario' = 1
    /\ results' = IF fn' = "return_maximisation"
                  THEN [key \in Range(scenario_names) |-> List(<<>>)] ELSE <<>>
    /\ pc' = "new_problem"
    /\ UNCHANGED <<previous, inputs, problem, submitted, outcome, solution_available, solution, locals,
                   result, dir_exists, dir_checked, lp_writes>>

\* ------------------------------------------- quantities of the assembly
cost_to_buy == params.cost_to_buy
cost_to_sell == params.cost_to_sell
beta == params.beta
initial_wealth == params.initial_wealth
return_target == params.return_target

\* the trees of the problem being built: all of scenarios_dict, or
\* test_dict[scenario] (one tree) in return_maximisation
data_keys ==
    IF fn = "return_maximisation" THEN <<scenario_names[scenario]>> ELSE scenario_names

nr_time_periods == Len(branching) + 1

NodesOf(rows) == [r \in 1..Len(rows) |-> rows[r].node]

final_nodes ==
    NodesOf(Filter(scenarios_dict[data_keys[1]],
                   LAMBDA row : Len(row.node) = nr_time_periods - 1))

internal_nodes ==
    NodesOf(Filter(scenarios_dict[data_keys[1]],
                   LAMBDA row : Len(row.node) < nr_time_periods - 1))

\* the rows of tree k at a node: scenarios_dict[str(k)][...['node'] == str(node)]
RowsAt(k, node) == Filter(scenarios_dict[k], LAMBDA row : row.node = node)

\* the instrument columns are named after the instruments, in their order
ColumnOf(instrument) == CHOOSE c \in 1..Len(instruments) : instruments[c] = instrument

\* ReturnAt reading the table of the first tree whatever k is
ReturnAt_first_tree(k, node, instrument) ==
    RowsAt(scenario_names[1], node)[1].ret[ColumnOf(instrument)]

\* float(scenarios_dict[str(k)][... == str(node)][instrument])
ReturnAt(k, node, instrument) == RowsAt(k, node)[1].ret[ColumnOf(instrument)]

\* ------------------------------------------------------------ variables
wcvar == "wcvar"
opt_return == "opt_return"
var == [kk \in 1..Len(data_keys) |-> "var_" \o data_keys[kk]]
\* w0_asset_weights built once per tree
w0_asset_weights_per_tree ==
    ConcatAll([kk \in 1..Len(data_keys) |->
        [j \in 1..Len(instruments) |-> "w_0_" \o instruments[j]]])

w0_asset_weights == [j \in 1..Len(instruments) |-> "w_0_" \o instruments[j]]
w0_asset_buys == [j \in 1..Len(instruments) |-> "b_0_" \o instruments[j]]
w0_asset_sells == [j \in 1..Len(instruments) |-> "s_0_" \o instruments[j]]

z ==
    LET keys == data_keys
        fin == final_nodes
    IN  ConcatAll([kk \in 1..Len(keys) |->
            [s \in 1..Len(fin) |-> "z_k" \o keys[kk] \o "_s" \o fin[s]]])

\* [prefix + str(k) + "_" + str(i) + "_s" + str(s) for k ... for i ... for s ...]
NodeVariables(prefix) ==
    LET keys == data_keys
        int == internal_nodes
    IN  ConcatAll([kk \in 1..Len(keys) |->
            ConcatAll([i \in 1..Len(instruments) |->
                [s \in 1..Len(int) |->
                    prefix \o keys[kk] \o "_" \o instruments[i] \o "_s" \o int[s]]])])

asset_weights == NodeVariables("w_k")
asset_buys == NodeVariables("b_k")
asset_sells == NodeVariables("s_k")

all_variables ==
    IF fn = "return_maximisation"
    THEN <<opt_return>> \o w0_asset_weights \o asset_weights \o w0_asset_buys
            \o asset_buys \o w0_asset_sells \o asset_sells
    ELSE <<wcvar>> \o var \o z \o w0_asset_weights \o asset_weights \o w0_asset_buys
            \o asset_buys \o w0_asset_sells \o asset_sells

\* --------------------------------------------------------------- bounds
wcvar_bounds == << <<0>>, <<cplex_infinity>> >>
opt_return_bounds == << <<0>>, <<cplex_infinity>> >>
\* np.repeat(x, n) for a number x
np_repeat_scalar(x, n) == [j \in 1..n |-> x]
var_bounds ==
    LET n == Len(var) IN << np_repeat_scalar(0, n), np_repeat_scalar(Float1e20, n) >>
z_bounds ==
    LET n == Len(z) IN << np_repeat_scalar(0, n), np_repeat_scalar(Float1e20, n) >>

\* all_weight_bounds sized by asset_weights alone
all_weight_bounds_short ==
    LET n == Len(asset_weights)
    IN  << np_repeat(weight_bounds[1], n), np_repeat(weight_bounds[2], n) >>

all_weight_bounds ==
    LET n == Len(w0_asset_weights) + Len(asset_weights)
    IN  << np_repeat(weight_bounds[1], n), np_repeat(weight_bounds[2], n) >>
all_sell_bounds ==
    LET n == Len(w0_asset_sells) + Len(asset_sells)
    IN  << np_repeat(sell_bounds[1], n), np_repeat(sell_bounds[2], n) >>
all_buy_bounds ==
    LET n == Len(w0_asset_buys) + Len(asset_buys)
    IN  << np_repeat(buy_bounds[1], n), np_repeat(buy_bounds[2], n) >>

all_lower_bounds ==
    IF fn = "return_maximisation"
    THEN opt_return_bounds[1] \o all_weight_bounds[1] \o all_buy_bounds[1]
            \o all_sell_bounds[1]
    ELSE wcvar_bounds[1] \o var_bounds[1] \o z_bounds[1] \o all_weight_bounds[1]
            \o all_buy_bounds[1] \o all_sell_bounds[1]

\* all_upper_bounds with the sell bounds put before the buy bounds
all_upper_bounds_sell_first ==
    IF fn = "return_maximisation"
    THEN opt_return_bounds[2] \o all_weight_bounds[2] \o all_sell_bounds[2]
            \o all_buy_bounds[2]
    ELSE wcvar_bounds[2] \o var_bounds[2] \o z_bounds[2] \o all_weight_bounds[2]
            \o all_sell_bounds[2] \o all_buy_bounds[2]

all_upper_bounds ==
    IF fn = "return_maximisation"
    THEN opt_return_bounds[2] \o all_weight_bounds[2] \o all_buy_bounds[2]
            \o all_sell_bounds[2]
    ELSE wcvar_bounds[2] \o var_bounds[2] \o z_bounds[2] \o all_weight_bounds[2]
            \o all_buy_bounds[2] \o all_sell_bounds[2]

\* objective_function with the 1.0 on the last variable
objective_function_last ==
    LET n == Len(all_variables) IN [j \in 1..(n - 1) |-> 0] \o <<One>>

\* list([1.0, *np.repeat(0.0, len(all_variables)-1)])
objective_function ==
    LET n == Len(all_variables) IN <<One>> \o [j \in 1..(n - 1) |-> 0]

\* NewProblem on a Cplex object made once and shared by the problems
NewProblem_shared_object ==
    /\ pc = "new_problem"
    /\ problem' = [problem EXCEPT
                     !.sense = IF fn = "return_maximisation" THEN "maximize"
                               ELSE "minimize"]
    /\ submitted' = <<>>
    /\ pc' = "variables"
    /\ UNCHANGED <<previous, inputs, call, scenario, outcome, solution_available, solution, locals,
                   results, result, dir_exists, dir_checked, lp_writes>>

\* cplex.Cplex() and objective.set_sense: the new object holds no solution
NewProblem ==
    /\ pc = "new_problem"
    /\ problem' = [EmptyProblem EXCEPT
                     !.sense = IF fn = "return_maximisation" THEN "maximize"
                               ELSE "minimize"]
    /\ submitted' = <<>>
    /\ solution_available' = FALSE
    /\ solution' = 0
    /\ pc' = "variables"
    /\ UNCHANGED <<previous, inputs, call, scenario, outcome, locals,
                   results, result, dir_exists, dir_checked, lp_writes>>

\* variables.add(names=all_variables, obj=objective_function, lb=..., ub=...)
DeclareVariables ==
    /\ pc = "variables"
    /\ problem' = [problem EXCEPT !.names = @ \o all_variables,
                                  !.obj = @ \o objective_function,
                                  !.lb = @ \o all_lower_bounds,
                                  !.ub = @ \o all_upper_bounds]
    /\ pc' = "t0"
    /\ UNCHANGED <<previous, inputs, call, scenario, submitted, outcome, solution_available, solution,
                   locals, results, result, dir_exists, dir_checked, lp_writes>>

\* ---------------------------------------------------------- constraints
\* one call of linear_constraints.add: cplex.SparsePair(ind, val), senses, rhs, names
Row(name, ind, val, sense, rhs) ==
    [name |-> name, ind |-> ind, val |-> val, sense |-> sense, rhs |-> rhs]

\* w_0_constraints with the two costs taken for each other
w_0_constraints_costs_swapped ==
    [j \in 1..Len(instruments) |->
        LET asset == "w_0_" \o instruments[j]
            to_buy == "b_0_" \o instruments[j]
            to_sell == "s_0_" \o instruments[j]
        IN  Row(asset, <<asset, to_buy, to_sell>>,
                <<One, -(One - cost_to_sell), One + cost_to_buy>>,
                "E", initial_portfolio[j])]

\* "# For each asset a separate row is needed for t=0 weight"
w_0_constraints ==
    [j \in 1..Len(instruments) |->
        LET asset == "w_0_" \o instruments[j]
            to_buy == "b_0_" \o instruments[j]
            to_sell == "s_0_" \o instruments[j]
        IN  Row(asset, <<asset, to_buy, to_sell>>,
                <<One, -(One - cost_to_buy), One + cost_to_sell>>,
                "E", initial_portfolio[j])]

\* w_0_balance_constraint with the initial portfolio left out of the right side
w_0_balance_constraint_full_cash ==
    Row("w_0_balance_constraint",
        w0_asset_buys \o w0_asset_sells,
        np_repeat_scalar(One, Len(w0_asset_buys))
            \o np_repeat_scalar(-One, Len(w0_asset_sells)),
        "E", One)

\* "# Normalise weights to 1 at t=0"
w_0_balance_constraint ==
    Row("w_0_balance_constraint",
        w0_asset_buys \o w0_asset_sells,
        np_repeat_scalar(One, Len(w0_asset_buys))
            \o np_repeat_scalar(-One, Len(w0_asset_sells)),
        "E", One - SumSeq(initial_portfolio))

\* PreviousWeight without the case of the first stage
PreviousWeight_parent_only(k, instrument, node) ==
    "w_k" \o k \o "_" \o instrument \o "_s" \o DropLast(node)

\* the weight of the previous period in the row of a node
PreviousWeight(k, instrument, node) ==
    IF Len(node) = 1 THEN "w_0_" \o instrument
    ELSE "w_k" \o k \o "_" \o instrument \o "_s" \o DropLast(node)

\* node_return_constraint without "return_constraint_parameters[0] = ...": the
\* previous weight keeps the 0.0 the list starts with
node_return_constraint_unset(k, instrument, node) ==
    LET return_constraint_variables ==
            << PreviousWeight(k, instrument, node),
               "b_k" \o k \o "_" \o instrument \o "_s" \o node,
               "s_k" \o k \o "_" \o instrument \o "_s" \o node,
               "w_k" \o k \o "_" \o instrument \o "_s" \o node >>
        return_constraint_parameters ==
            << 0, One - cost_to_buy, -(One + cost_to_sell), -One >>
    IN  Row(return_constraint_variables[4] \o "_return_constraint",
            return_constraint_variables, return_constraint_parameters, "E", 0)

\* "# Weights constraint, taking into account the return"
node_return_constraint(k, instrument, node) ==
    LET return_constraint_variables ==
            << PreviousWeight(k, instrument, node),
               "b_k" \o k \o "_" \o instrument \o "_s" \o node,
               "s_k" \o k \o "_" \o instrument \o "_s" \o node,
               "w_k" \o k \o "_" \o instrument \o "_s" \o node >>
        return_constraint_parameters ==
            << ReturnAt(k, node, instrument), One - cost_to_buy,
               -(One + cost_to_sell), -One >>
    IN  Row(return_constraint_variables[4] \o "_return_constraint",
            return_constraint_variables, return_constraint_parameters, "E", 0)

node_return_constraints ==
    LET keys == data_keys
        int == internal_nodes
    IN  ConcatAll([kk \in 1..Len(keys) |->
            ConcatAll([i \in 1..Len(instruments) |->
                [s \in 1..Len(int) |->
                    node_return_constraint(keys[kk], instruments[i], int[s])]])])

\* "# Buy-sell balance constraints"
balance_constraint(k, node) ==
    LET buys == [i \in 1..Len(instruments) |->
                    "b_k" \o k \o "_" \o instruments[i] \o "_s" \o node]
        sells == [i \in 1..Len(instruments) |->
                    "s_k" \o k \o "_" \o instruments[i] \o "_s" \o node]
    IN  Row("k" \o k \o "_s" \o node \o "_balance_constraint",
            buys \o sells,
            np_repeat_scalar(One, Len(buys)) \o np_repeat_scalar(-One, Len(sells)),
            "E", 0)

\* balance_constraints looping over all_nodes
balance_constraints_all_nodes ==
    LET keys == data_keys
        all_nodes == NodesOf(scenarios_dict[keys[1]])
    IN  ConcatAll([kk \in 1..Len(keys) |->
            [s \in 1..Len(all_nodes) |-> balance_constraint(keys[kk], all_nodes[s])]])

balance_constraints ==
    LET keys == data_keys
        int == internal_nodes
    IN  ConcatAll([kk \in 1..Len(keys) |->
            [s \in 1..Len(int) |-> balance_constraint(keys[kk], int[s])]])

\* z_parameters with the factor 1/(1-beta) left positive
z_parameters_positive(k) ==
    LET fin == Range(final_nodes)
        rows == Filter(scenarios_dict[k], LAMBDA row : row.node \in fin)
        factor == Div(One, One - beta)
    IN  [r \in 1..Len(rows) |-> Mul(factor, rows[r].cum_probability)]

\* scenarios_dict[str(k)][...['node'].isin(final_nodes)]['cum_probability']
\*   * (-1/(1-beta)): the rows of tree k in the order of its table
z_parameters(k) ==
    LET fin == Range(final_nodes)
        rows == Filter(scenarios_dict[k], LAMBDA row : row.node \in fin)
        factor == Div(-One, One - beta)
    IN  [r \in 1..Len(rows) |-> Mul(factor, rows[r].cum_probability)]

\* "# WCVAR constraints for each scenario"
wcvar_constraint(k) ==
    LET fin == final_nodes
    IN  Row("k" \o k \o "_wcvar_constraint",
            <<"wcvar", "var_" \o k>>
                \o [s \in 1..Len(fin) |-> "z_k" \o k \o "_s" \o fin[s]],
            <<One, -One>> \o z_parameters(k),
            "G", 0)

wcvar_constraints ==
    LET keys == data_keys IN [kk \in 1..Len(keys) |-> wcvar_constraint(keys[kk])]

\* z_constraint with the returns not scaled by initial_wealth
z_constraint_unscaled(k, node) ==
    LET zname == "z_k" \o k \o "_s" \o node
    IN  Row(zname \o "_constraint",
            <<zname>>
                \o [i \in 1..Len(instruments) |->
                      "w_k" \o k \o "_" \o instruments[i] \o "_s" \o DropLast(node)]
                \o <<"var_" \o k>>,
            <<One>>
                \o [i \in 1..Len(instruments) |-> ReturnAt(k, node, instruments[i])]
                \o <<One>>,
            "G", initial_wealth)

\* "# z constraint for each scenario"
z_constraint(k, node) ==
    LET zname == "z_k" \o k \o "_s" \o node
    IN  Row(zname \o "_constraint",
            <<zname>>
                \o [i \in 1..Len(instruments) |->
                      "w_k" \o k \o "_" \o instruments[i] \o "_s" \o DropLast(node)]
                \o <<"var_" \o k>>,
            <<One>>
                \o [i \in 1..Len(instruments) |->
                      Mul(ReturnAt(k, node, instruments[i]), initial_wealth)]
                \o <<One>>,
            "G", initial_wealth)

z_constraints ==
    LET keys == data_keys
        fin == final_nodes
    IN  ConcatAll([kk \in 1..Len(keys) |->
            [s \in 1..Len(fin) |-> z_constraint(keys[kk], fin[s])]])

\* ------------------------------------------------ terminal return row
\* the characters of the names, in code-point order
CodePoints == "0123456789ABCDEFGHIJKLMNOPQRSTUVWXYZ_abcdefghijklmnopqrstuvwxyz"
CodePoint(c) == CHOOSE j \in 1..Len(CodePoints) : SubSeq(CodePoints, j, j) = c

\* a < b for strings that agree before position p
RECURSIVE StrLessFrom(_, _, _)
StrLessFrom(a, b, p) ==
    IF p > Len(b) THEN FALSE
    ELSE IF p > Len(a) THEN TRUE
    ELSE IF SubSeq(a, p, p) = SubSeq(b, p, p) THEN StrLessFrom(a, b, p + 1)
    ELSE CodePoint(SubSeq(a, p, p)) < CodePoint(SubSeq(b, p, p))

\* a < b for strings, as Python and pandas order them
StrLess(a, b) == StrLessFrom(a, b, 1)

\* s, sorted, with x put in its place
RECURSIVE InsertSorted(_, _)
InsertSorted(x, s) ==
    IF Len(s) = 0 THEN <<x>>
    ELSE IF StrLess(x, Head(s)) THEN <<x>> \o s
    ELSE <<Head(s)>> \o InsertSorted(x, Tail(s))

\* the distinct strings of a list, sorted
RECURSIVE SortedStrings(_)
SortedStrings(s) ==
    IF Len(s) = 0 THEN <<>>
    ELSE LET rest == SortedStrings(Tail(s))
         IN  IF Head(s) \in Range(rest) THEN rest ELSE InsertSorted(Head(s), rest)

\* the flattened lists of the loop over final_nodes: for every final node and
\* instrument column, the parent weight and return * cum_probability
terminal_terms(k) ==
    LET fin == final_nodes
    IN  ConcatAll([s \in 1..Len(fin) |->
            LET row == RowsAt(k, fin[s])[1]
            IN  [c \in 1..Len(instruments) |->
                    [variables |-> "w_k" \o k \o "_" \o instruments[c] \o "_s"
                                      \o DropLast(fin[s]),
                     values |-> Mul(row.ret[c], row.cum_probability)]]])

\* data_grouped without the groupby: the flattened lists as they are
data_grouped_flat(k) ==
    LET terms == terminal_terms(k)
    IN  [index |-> [j \in 1..Len(terms) |-> terms[j].variables],
         values |-> [j \in 1..Len(terms) |-> terms[j].values]]

\* data_df.groupby(['variables'])['values'].sum(): one entry per variable, the
\* variables in sorted order
data_grouped(k) ==
    LET terms == terminal_terms(k)
        index == SortedStrings([j \in 1..Len(terms) |-> terms[j].variables])
    IN  [index |-> index,
         values |-> [g \in 1..Len(index) |->
                       SumSeq([j \in 1..Len(terms) |->
                                 IF terms[j].variables = index[g]
                                 THEN terms[j].values ELSE 0])]]

\* return_constraint with the grouped values not negated in return_maximisation
return_constraint_not_negated(k) ==
    LET grouped == data_grouped(k)
    IN  IF fn = "return_maximisation"
        THEN Row("k" \o k \o "_return_constraint",
                 <<opt_return>> \o grouped.index,
                 <<One>> \o grouped.values,
                 "L", 0)
        ELSE Row("k" \o k \o "_return_constraint",
                 grouped.index, grouped.values, "G", return_target)

\* "# Return constraint for period t = T"
return_constraint(k) ==
    LET grouped == data_grouped(k)
    IN  IF fn = "return_maximisation"
        THEN Row("k" \o k \o "_return_constraint",
                 <<opt_return>> \o grouped.index,
                 <<One>> \o [g \in 1..Len(grouped.values) |-> -grouped.values[g]],
                 "L", 0)
        ELSE Row("k" \o k \o "_return_constraint",
                 grouped.index, grouped.values, "G", return_target)

\* return_constraints without the test of wcvar_minimizer
return_constraints_always ==
    LET keys == data_keys
    IN  [kk \in 1..Len(keys) |-> return_constraint(keys[kk])]

return_constraints ==
    LET keys == data_keys
    IN  IF fn = "robust_portfolio_optimisation" /\ wcvar_minimizer # "no"
        THEN <<>>
        ELSE [kk \in 1..Len(keys) |-> return_constraint(keys[kk])]

\* ----------------------------------------------------- adding the rows
\* CPLEX refuses a row that names a variable it does not hold
\* (CplexSolverError 1210, "Name does not exist")
Accepted(row, declared) == \A j \in 1..Len(row.ind) : row.ind[j] \in declared

Raised(what) == [kind |-> "exception", value |-> what]

\* the rows go to linear_constraints.add one by one, up to the first one refused
AddRows(new, next) ==
    LET declared == Range(problem.names)
        bad == {j \in 1..Len(new) : ~Accepted(new[j], declared)}
        first == CHOOSE j \in bad : \A h \in bad : j <= h
    IN  IF bad = {}
        THEN /\ problem' = [problem EXCEPT !.rows = @ \o new]
             /\ pc' = next
             /\ result' = result
        ELSE /\ problem' = [problem EXCEPT !.rows = @ \o SubSeq(new, 1, first)]
             /\ pc' = "raised"
             /\ result' = Raised("CplexSolverError")

frame_rows == <<previous, inputs, call, scenario, submitted, outcome, solution_available, solution,
                locals, results, dir_exists, dir_checked, lp_writes>>

\* AddW0Constraints clearing the entries of initial_portfolio it has used
AddW0Constraints_clearing ==
    /\ pc = "t0"
    /\ AddRows(w_0_constraints, "t0_balance")
    /\ initial_portfolio' = [j \in 1..Len(initial_portfolio) |-> 0]
    /\ UNCHANGED <<previous, scenarios_dict, scenario_names, instruments, branching,
                   sell_bounds, buy_bounds, weight_bounds, params, call, scenario,
                   submitted, outcome, solution_available, solution, locals, results,
                   dir_exists, dir_checked, lp_writes>>

AddW0Constraints ==
    /\ pc = "t0"
    /\ AddRows(w_0_constraints, "t0_balance")
    /\ UNCHANGED frame_rows

AddW0Balance ==
    /\ pc = "t0_balance"
    /\ AddRows(<<w_0_balance_constraint>>, "node_return")
    /\ UNCHANGED frame_rows

AddNodeReturnConstraints ==
    /\ pc = "node_return"
    /\ AddRows(node_return_constraints, "balance")
    /\ UNCHANGED frame_rows

AddBalanceConstraints ==
    /\ pc = "balance"
    /\ AddRows(balance_constraints,
               IF fn = "return_maximisation" THEN "return" ELSE "wcvar")
    /\ UNCHANGED frame_rows

AddWcvarConstraints ==
    /\ pc = "wcvar"
    /\ AddRows(wcvar_constraints, "z")
    /\ UNCHANGED frame_rows

AddZConstraints ==
    /\ pc = "z"
    /\ AddRows(z_constraints, "return")
    /\ UNCHANGED frame_rows

AddReturnConstraints ==
    /\ pc = "return"
    /\ AddRows(return_constraints, "solve")
    /\ UNCHANGED frame_rows

\* ---------------------------------------------------------- the solve
Backends == {"gurobi", "cplex"}

\* the value of a variable in the solution the backend found
ValueOf(name) == <<"x", name>>

\* solver == 'gurobi': min_wcvar.write(results/<folder>/....lp); CPLEX cannot
\* open the file when the directory is missing
GurobiWrite ==
    /\ pc = "solve"
    /\ solver = "gurobi"
    /\ IF dir_exists
       THEN /\ lp_writes' = lp_writes + 1
            /\ pc' = "gurobi_optimize"
            /\ result' = result
       ELSE /\ lp_writes' = lp_writes
            /\ pc' = "raised"
            /\ result' = Raised("CplexSolverError")
    /\ UNCHANGED <<previous, inputs, call, scenario, problem, submitted, outcome,
                   solution_available, solution, locals, results, dir_exists, dir_checked>>

\* [x.varName for x in presolved_lp.getVars() if x.VarName.find('w_0') != -1]
gurobi_w_0_variables(columns) == Filter(columns, LAMBDA name : Contains(name, "w_0"))

\* read(...), presolve(), optimize() and the status test; presolve may drop
\* columns of the model, and getVars() lists the columns it kept (dropping
\* columns and selecting by name commute)
GurobiOptimize ==
    /\ pc = "gurobi_optimize"
    /\ submitted' = Append(submitted, "gurobi")
    /\ LET named == gurobi_w_0_variables(problem.names)
       IN  \E status \in {"optimal", "not_optimal"}, dropped \in SUBSET Range(named) :
             /\ status = "not_optimal" => dropped = {}
             /\ outcome' = status
             /\ IF status = "optimal"
                THEN LET found == Filter(named, LAMBDA name : name \notin dropped)
                     IN  /\ objective_value' = Number(<<"ObjVal", data_keys>>)
                         /\ w_0_variables' = List(found)
                         /\ w_0_values' =
                              List([j \in 1..Len(found) |-> ValueOf(found[j])])
                ELSE /\ objective_value' = NaN
                     /\ w_0_values' = NaN
                     /\ w_0_variables' = NaN
    /\ pc' = "after_solve"
    /\ UNCHANGED <<previous, inputs, call, scenario, problem, solution_available, solution, min_return,
                   results, result, dir_exists, dir_checked, lp_writes>>

\* variables.get_names().index(name)
IndexOf(names, name) == CHOOSE j \in 1..Len(names) :
                            names[j] = name /\ \A h \in 1..(j - 1) : names[h] # name

\* the solution vectors CPLEX may come back with: vector c holds 1.0 in the
\* columns j with j % 3 = c % 3 and 0.0 in the others
SolutionVectors == {1, 2, 3}

\* solver == 'cplex': solve() and is_primal_feasible(); an infeasible problem
\* may or may not leave solution values behind
CplexSolve ==
    /\ pc = "solve"
    /\ solver = "cplex"
    /\ submitted' = Append(submitted, "cplex")
    /\ \E status \in {"optimal", "not_optimal"}, has \in BOOLEAN :
         /\ status = "optimal" => has
         /\ outcome' = status
         /\ solution_available' = has
         /\ solution' \in (IF has THEN SolutionVectors ELSE {0})
         /\ IF status = "optimal"
            THEN LET indices == [j \in 1..Len(w0_asset_weights) |->
                                   IndexOf(problem.names, w0_asset_weights[j])]
                 IN  /\ objective_value' = Number(<<"get_objective_value", data_keys>>)
                     /\ w_0_values' = List([j \in 1..Len(indices) |->
                                              ValueOf(problem.names[indices[j]])])
                     /\ w_0_variables' = List(w0_asset_weights)
            ELSE /\ objective_value' = NaN
                 /\ w_0_values' = NaN
                 /\ w_0_variables' = NaN
    /\ pc' = IF fn = "robust_portfolio_optimisation" /\ wcvar_minimizer = "yes"
             THEN "worst_scenario" ELSE "after_solve"
    /\ UNCHANGED <<previous, inputs, call, scenario, problem, min_return, results, result,
                   dir_exists, dir_checked, lp_writes>>

\* neither "if solver == ..." holds
NoBackend ==
    /\ pc = "solve"
    /\ solver \notin Backends
    /\ pc' = "after_solve"
    /\ UNCHANGED <<previous, inputs, call, scenario, problem, submitted, outcome,
                   solution_available, solution, locals, results, result, dir_exists, dir_checked, lp_writes>>

\* min_wcvar.solution.get_values(): a value per column, in the order of the
\* columns
get_values ==
    [j \in 1..Len(problem.names) |-> IF j % 3 = solution % 3 THEN One ELSE 0]

\* [get_values()[variables.get_names().index(i)] for i in names]
values_of(names) ==
    LET all == get_values
    IN  [j \in 1..Len(names) |-> all[IndexOf(problem.names, names[j])]]

\* np.sum(np.array(a) * np.array(b))
np_sum_product(a, b) == SumSeq([j \in 1..Len(a) |-> Mul(a[j], b[j])])

\* wcvar_dict[k] = -np.sum(np.array(wcvar_contraint_parameters)
\*                        * np.array(wcvar_values))
wcvar_dict ==
    LET fin == final_nodes
    IN  [kk \in 1..Len(scenario_names) |->
            LET k == scenario_names[kk]
                wcvar_constraint_variables ==
                    <<"var_" \o k>> \o [s \in 1..Len(fin) |-> "z_k" \o k \o "_s" \o fin[s]]
                wcvar_contraint_parameters == <<-One>> \o z_parameters(k)
            IN  -np_sum_product(wcvar_contraint_parameters,
                                values_of(wcvar_constraint_variables))]

\* worst_scenario taking the smallest entry
worst_scenario_min ==
    LET d == wcvar_dict
    IN  scenario_names[CHOOSE kk \in 1..Len(d) :
            /\ \A h \in 1..Len(d) : d[h] >= d[kk]
            /\ \A h \in 1..(kk - 1) : d[h] > d[kk]]

\* k = max(wcvar_dict, key=wcvar_dict.get): the first key with the largest value
worst_scenario ==
    LET d == wcvar_dict
    IN  scenario_names[CHOOSE kk \in 1..Len(d) :
            /\ \A h \in 1..Len(d) : d[h] <= d[kk]
            /\ \A h \in 1..(kk - 1) : d[h] < d[kk]]

\* min_return = np.sum(return_constraint_parameters * values) over the grouped
\* terminal terms of tree k
return_of_scenario(k) ==
    LET grouped == data_grouped(k)
    IN  np_sum_product(grouped.values, values_of(grouped.index))

\* wcvar_minimizer == 'yes' under solver == 'cplex': solution.get_values() for
\* every tree, the tree with the largest CVaR, and its return; get_values()
\* raises CplexSolverError 1217 when CPLEX holds no solution
FindWorstScenario ==
    /\ pc = "worst_scenario"
    /\ IF solution_available
       THEN /\ min_return' = Number(return_of_scenario(worst_scenario))
            /\ pc' = "save"
            /\ result' = result
       ELSE /\ min_return' = min_return
            /\ pc' = "raised"
            /\ result' = Raised("CplexSolverError")
    /\ UNCHANGED <<previous, inputs, call, scenario, problem, submitted, outcome,
                   solution_available, solution, objective_value, w_0_variables, w_0_values,
                   results, dir_exists, dir_checked, lp_writes>>

\* ResultKey stuck on the first tree
ResultKey_first_tree == scenario_names[1]

\* the k of "results[k] = objective_value": the variable the loops "for k in
\* data" left behind, the one key of data
ResultKey == data_keys[Len(data_keys)]

\* return_maximisation: results[k] = objective_value, then the next tree
StoreResult ==
    /\ pc = "after_solve"
    /\ fn = "return_maximisation"
    /\ IF objective_value = Unbound
       THEN /\ pc' = "raised"
            /\ result' = Raised("UnboundLocalError")
            /\ UNCHANGED <<results, scenario>>
       ELSE /\ results' = [results EXCEPT ![ResultKey] = objective_value]
            /\ result' = result
            /\ IF scenario < Len(scenario_names)
               THEN scenario' = scenario + 1 /\ pc' = "new_problem"
               ELSE scenario' = scenario /\ pc' = "save"
    /\ UNCHANGED <<previous, inputs, call, problem, submitted, outcome, solution_available, solution,
                   locals, dir_exists, dir_checked, lp_writes>>

\* AfterSolve with a row added to the solved problem
AfterSolve_adds_row ==
    /\ pc = "after_solve"
    /\ fn = "robust_portfolio_optimisation"
    /\ problem' = [problem EXCEPT !.rows = @ \o <<w_0_balance_constraint>>]
    /\ pc' = "save"
    /\ UNCHANGED <<previous, inputs, call, scenario, submitted, outcome,
                   solution_available, solution, locals, results, result, dir_exists, dir_checked, lp_writes>>

\* robust_portfolio_optimisation falls through to "# Write to file"
AfterSolve ==
    /\ pc = "after_solve"
    /\ fn = "robust_portfolio_optimisation"
    /\ pc' = "save"
    /\ UNCHANGED <<previous, inputs, call, scenario, problem, submitted, outcome,
                   solution_available, solution, locals, results, result, dir_exists, dir_checked, lp_writes>>

\* SaveLP without the test of to_save
SaveLP_always ==
    /\ pc = "save"
    /\ dir_exists' = TRUE /\ dir_checked' = TRUE /\ lp_writes' = lp_writes + 1
    /\ pc' = "exit"
    /\ UNCHANGED <<previous, inputs, call, scenario, problem, submitted, outcome,
                   solution_available, solution, locals, results, result>>

\* if to_save == 'yes': os.path.exists, os.makedirs, write
SaveLP ==
    /\ pc = "save"
    /\ IF to_save = "yes"
       THEN dir_exists' = TRUE /\ dir_checked' = TRUE /\ lp_writes' = lp_writes + 1
       ELSE UNCHANGED <<dir_exists, dir_checked, lp_writes>>
    /\ pc' = "exit"
    /\ UNCHANGED <<previous, inputs, call, scenario, problem, submitted, outcome,
                   solution_available, solution, locals, results, result>>

\* ResultShape with the 'return' block of the CPLEX branch not guarded by
\* wcvar_minimizer
ResultShape_unguarded(slv, flag) == IF slv = "cplex" THEN "dict" ELSE "tuple"

\* which return statement ends robust_portfolio_optimisation
ResultShape(slv, flag) == IF slv = "cplex" /\ flag = "yes" THEN "dict" ELSE "tuple"

Return ==
    /\ pc = "exit"
    /\ IF fn = "return_maximisation"
       THEN /\ result' = [kind |-> "results", value |-> results]
            /\ pc' = "returned"
       ELSE IF ResultShape(solver, wcvar_minimizer) = "dict"
       THEN /\ result' = [kind |-> "dict",
                          value |-> [wcvar |-> objective_value,
                                     return |-> min_return,
                                     w_0_variables |-> w_0_variables,
                                     w_0_values |-> w_0_values]]
            /\ pc' = "returned"
       ELSE IF objective_value = Unbound
       THEN /\ result' = Raised("UnboundLocalError")
            /\ pc' = "raised"
       ELSE /\ result' = [kind |-> "tuple",
                          value |-> <<objective_value, w_0_variables, w_0_values>>]
            /\ pc' = "returned"
    /\ UNCHANGED <<previous, inputs, call, scenario, problem, submitted, outcome,
                   solution_available, solution, locals, results, dir_exists, dir_checked, lp_writes>>

Next ==
    \/ Invoke
    \/ NewProblem
    \/ DeclareVariables
    \/ AddW0Constraints
    \/ AddW0Balance
    \/ AddNodeReturnConstraints
    \/ AddBalanceConstraints
    \/ AddWcvarConstraints
    \/ AddZConstraints
    \/ AddReturnConstraints
    \/ GurobiWrite
    \/ GurobiOptimize
    \/ CplexSolve
    \/ NoBackend
    \/ FindWorstScenario
    \/ StoreResult
    \/ AfterSolve
    \/ SaveLP
    \/ Return

Spec == Init /\ [][Next]_vars

\* the caller calls again, with the same data: the frame of the finished call
\* is gone (its locals, its results dictionary), the files it wrote stay, and
\* the Cplex object it built is replaced when the next call makes its own
Recall ==
    /\ pc \in {"returned", "raised"}
    /\ previous' = IF fn = "robust_portfolio_optimisation"
                   THEN [kind |-> "call", wcvar_minimizer |-> wcvar_minimizer,
                         problem |-> problem]
                   ELSE previous
    /\ fn' = "none" /\ solver' = "none" /\ wcvar_minimizer' = "none" /\ to_save' = "none"
    /\ pc' = "idle"
    /\ scenario' = 0
    /\ outcome' = "none"
    /\ solution_available' = FALSE
    /\ solution' = 0
    /\ objective_value' = Unbound /\ w_0_variables' = Unbound /\ w_0_values' = Unbound
    /\ min_return' = Unbound
    /\ results' = <<>>
    /\ result' = [kind |-> "none"]
    /\ lp_writes' = 0
    /\ dir_checked' = FALSE
    /\ UNCHANGED <<inputs, problem, submitted, dir_exists>>

NextRecall == Next \/ Recall

\* the data of F_Run.py: beta 0.99, return_target 1.01, costs 0.01, and the
\* equally weighted initial portfolio
InitRecall ==
    /\ Init
    /\ params = [cost_to_buy |-> 100, cost_to_sell |-> 100, beta |-> 9900,
                 initial_wealth |-> One, return_target |-> 10100]
    /\ initial_portfolio[1] > 0

\* a caller that calls the two functions any number of times on that data
SpecRecall == InitRecall /\ [][NextRecall]_vars

\* ================================================================ claims
\* the trees the problem at hand is built from
ProblemTrees ==
    IF fn = "return_maximisation" THEN {scenario_names[scenario]}
    ELSE Range(scenario_names)

NodesOfLength(k, Test(_)) ==
    {scenarios_dict[k][r].node : r \in {q \in 1..Len(scenarios_dict[k]) :
                                          Test(Len(scenarios_dict[k][q].node))}}
InternalNodesOf(k) == NodesOfLength(k, LAMBDA n : n < Len(branching))
FinalNodesOf(k) == NodesOfLength(k, LAMBDA n : n = Len(branching))

InstrumentSet == Range(instruments)

\* the table entry of tree k at a node
EntryAt(k, node) ==
    scenarios_dict[k][CHOOSE r \in 1..Len(scenarios_dict[k]) :
                          scenarios_dict[k][r].node = node]
ReturnOf(k, node, i) ==
    EntryAt(k, node).ret[CHOOSE c \in 1..Len(instruments) : instruments[c] = i]

WeightName(k, i, n) == "w_k" \o k \o "_" \o i \o "_s" \o n
BuyName(k, i, n) == "b_k" \o k \o "_" \o i \o "_s" \o n
SellName(k, i, n) == "s_k" \o k \o "_" \o i \o "_s" \o n
ZName(k, n) == "z_k" \o k \o "_s" \o n
ParentOf(n) == SubSeq(n, 1, Len(n) - 1)

\* the problem is complete: every family of rows has been handed to
\* linear_constraints.add and the problem is about to go to the backend (no
\* later step adds a variable or a row)
AllRowsAdded == pc = "solve"

\* the rows handed over so far, when the assembly ended: complete, or cut
\* short by a refused row
AssemblyEnded == pc \in {"solve", "raised"}

IsRpo == fn = "robust_portfolio_optimisation"

RowsWhere(Test(_)) == {j \in 1..Len(problem.rows) : Test(problem.rows[j])}
Mentions(row, name) == \E j \in 1..Len(row.ind) : row.ind[j] = name
\* the coefficient of a variable in a row (0 when absent, the sum when repeated)
Coef(row, name) ==
    LET at == {j \in 1..Len(row.ind) : row.ind[j] = name}
    IN  IF at = {} THEN 0
        ELSE IF Cardinality(at) = 1 THEN row.val[CHOOSE j \in at : TRUE]
        ELSE SumSeq([j \in 1..Len(row.ind) |->
                       IF row.ind[j] = name THEN row.val[j] ELSE 0])
Count(seq, x) == Cardinality({j \in 1..Len(seq) : seq[j] = x})

\* 1/(1-beta)
InvOneMinusBeta == (One * One) \div (One - beta)

\* the worst-case-CVaR rows of tree k
WcvarRowsOf(k) ==
    LET v == "var_" \o k
    IN  RowsWhere(LAMBDA row : Mentions(row, "wcvar") /\ Mentions(row, v))

\* a row wcvar - var_k + sign * (1/(1-beta)) * SUM p(k,s) * z_k_s >= 0 over
\* exactly these variables
IsWcvarRow(row, k, sign) ==
    LET fin == FinalNodesOf(k)
    IN  /\ row.sense = "G"
        /\ row.rhs = 0
        /\ Range(row.ind) = {"wcvar", "var_" \o k} \cup {ZName(k, s) : s \in fin}
        /\ Len(row.ind) = 2 + Cardinality(fin)
        /\ Coef(row, "wcvar") = One
        /\ Coef(row, "var_" \o k) = -One
        /\ \A s \in fin :
             Coef(row, ZName(k, s))
               = sign * (InvOneMinusBeta \div One) * EntryAt(k, s).cum_probability

\* C1 (amended): for every rival tree k, robust_portfolio_optimisation emits
\* exactly one worst-case-CVaR row, and it states
\* wcvar >= var_k + (1/(1-beta)) * SUM over the final nodes s of
\* cum_probability(k,s) * z_k_s: the weighted z term is added to var_k.
C1_WcvarRowAddsZTerm ==
    (IsRpo /\ AllRowsAdded) =>
        \A k \in ProblemTrees :
            /\ Cardinality(WcvarRowsOf(k)) = 1
            /\ \A j \in WcvarRowsOf(k) : IsWcvarRow(problem.rows[j], k, -1)

\* C1 as claimed: the row states wcvar >= var_k - (1/(1-beta)) * SUM p * z
C1_Original ==
    (IsRpo /\ AllRowsAdded) =>
        \A k \in ProblemTrees :
            /\ Cardinality(WcvarRowsOf(k)) = 1
            /\ \A j \in WcvarRowsOf(k) : IsWcvarRow(problem.rows[j], k, 1)

\* two rival trees with unequal leaf probabilities, rows emitted
C1_Witness ==
    /\ IsRpo /\ pc = "solve"
    /\ Len(scenario_names) >= 2 /\ Len(branching) >= 3
    /\ \A k \in ProblemTrees : WcvarRowsOf(k) # {}

\* the rows that tie the weight, the buy and the sell of (k, i, n)
TransactionRowsOf(k, i, n) ==
    LET w == WeightName(k, i, n)
        b == BuyName(k, i, n)
    IN  RowsWhere(LAMBDA row : Mentions(row, w) /\ Mentions(row, b))

PreviousWeightName(k, i, n) ==
    IF Len(n) = 1 THEN "w_0_" \o i ELSE WeightName(k, i, ParentOf(n))

\* the equality weight(n) = c * weight(prev) + (1-cost_to_buy) * buy(n)
\*                          - (1+cost_to_sell) * sell(n)
IsTransactionRow(row, k, i, n, c) ==
    /\ row.sense = "E"
    /\ row.rhs = 0
    /\ Len(row.ind) = 4
    /\ Range(row.ind) = {PreviousWeightName(k, i, n), BuyName(k, i, n),
                         SellName(k, i, n), WeightName(k, i, n)}
    /\ Coef(row, WeightName(k, i, n)) = -One
    /\ Coef(row, BuyName(k, i, n)) = One - cost_to_buy
    /\ Coef(row, SellName(k, i, n)) = -(One + cost_to_sell)
    /\ Coef(row, PreviousWeightName(k, i, n)) = c

\* C2 (amended): for every tree k, instrument i and internal node n the
\* transaction row of both functions is the equality
\* weight(n) = return(k,n,i) * weight(previous period)
\*             + (1 - cost_to_buy) * buy(n) - (1 + cost_to_sell) * sell(n):
\* the previous-period weight enters with the realised return of i at n.
C2_TransactionRowCarriesReturn ==
    AllRowsAdded =>
        \A k \in ProblemTrees, i \in InstrumentSet :
            \A n \in InternalNodesOf(k) :
                /\ Cardinality(TransactionRowsOf(k, i, n)) = 1
                /\ \A j \in TransactionRowsOf(k, i, n) :
                     IsTransactionRow(problem.rows[j], k, i, n, ReturnOf(k, n, i))

\* C2 as claimed: the previous-period weight enters with coefficient 1
C2_Original ==
    AllRowsAdded =>
        \A k \in ProblemTrees, i \in InstrumentSet :
            \A n \in InternalNodesOf(k) :
                /\ Cardinality(TransactionRowsOf(k, i, n)) = 1
                /\ \A j \in TransactionRowsOf(k, i, n) :
                     IsTransactionRow(problem.rows[j], k, i, n, One)

\* a problem with a node below the first stage, in return_maximisation
C2_Witness ==
    /\ fn = "return_maximisation" /\ pc = "solve"
    /\ Len(branching) >= 3 /\ Len(instruments) >= 2
    /\ \E k \in ProblemTrees, i \in InstrumentSet :
         \E n \in InternalNodesOf(k) : Len(n) = 2 /\ TransactionRowsOf(k, i, n) # {}

ResultFields ==
    IF result.kind = "tuple"
    THEN [objective_value |-> result.value[1], w_0_variables |-> result.value[2],
          w_0_values |-> result.value[3]]
    ELSE [objective_value |-> result.value.wcvar,
          w_0_variables |-> result.value.w_0_variables,
          w_0_values |-> result.value.w_0_values]

\* C3: whenever the selected solver reports that the problem is not solved,
\* robust_portfolio_optimisation returns without raising, and its objective
\* value, w_0 variables and w_0 values are all the not-a-number sentinel.
C3_InfeasibleReturnsNaN ==
    (IsRpo /\ outcome = "not_optimal") =>
        /\ pc # "raised"
        /\ pc = "returned" =>
             /\ ResultFields.objective_value = NaN
             /\ ResultFields.w_0_variables = NaN
             /\ ResultFields.w_0_values = NaN

Solved == pc \in {"worst_scenario", "after_solve", "save", "exit", "returned"}

\* C4: for every value of the solver argument each assembled problem goes to
\* exactly one backend, and the call then returns a result whose objective
\* value is defined.
C4_ExactlyOneBackend ==
    /\ Solved => Len(submitted) = 1
    /\ pc = "raised" => result.value # "UnboundLocalError"
    /\ (pc = "returned" /\ IsRpo) => ResultFields.objective_value # Unbound
    /\ (pc = "returned" /\ ~IsRpo) =>
          \A k \in DOMAIN result.value : result.value[k].kind \in {"number", "nan"}

FieldKinds ==
    IF result.kind = "tuple"
    THEN <<result.value[1].kind, result.value[2].kind, result.value[3].kind>>
    ELSE <<result.value.wcvar.kind, result.value.return.kind,
           result.value.w_0_variables.kind, result.value.w_0_values.kind>>

\* C5 (amended): with wcvar_minimizer other than 'yes' the two backends are
\* interchangeable: for the same solver outcome robust_portfolio_optimisation
\* returns the 3-tuple (objective_value, w_0_variables, w_0_values), a number
\* and two lists when solved and three not-a-number sentinels otherwise,
\* whether solver is 'gurobi' or 'cplex'; with wcvar_minimizer 'yes' CPLEX
\* returns the record wcvar/return/w_0_variables/w_0_values and Gurobi the
\* 3-tuple.
C5_SameShapeUnlessMinimizer ==
    (IsRpo /\ pc = "returned" /\ solver \in Backends) =>
        /\ wcvar_minimizer # "yes" =>
             /\ result.kind = "tuple"
             /\ FieldKinds = IF outcome = "optimal"
                             THEN <<"number", "list", "list">>
                             ELSE <<"nan", "nan", "nan">>
        /\ wcvar_minimizer = "yes" =>
             result.kind = IF solver = "cplex" THEN "dict" ELSE "tuple"

\* C5 as claimed: the result has the shape the other backend returns for the
\* same arguments
C5_Original ==
    (IsRpo /\ pc = "returned" /\ solver \in Backends) =>
        \A other \in Backends : result.kind = ResultShape(other, wcvar_minimizer)

\* CPLEX returned the 3-tuple for a solved problem without the minimizer flag
C5_Witness ==
    /\ IsRpo /\ pc = "returned" /\ solver = "cplex" /\ wcvar_minimizer = "no"
    /\ outcome = "optimal" /\ result.kind = "tuple"

Declared == Range(problem.names)

\* C6 (amended): every variable name referenced by a constraint row of either
\* function is declared in all_variables of the same problem, for every input
\* with at least one tree, at least one instrument, len(branching) >= 2 and
\* nodes forming a prefix-closed tree whose root has length 1.
C6_RowsNameDeclaredVariables ==
    (AssemblyEnded /\ Len(branching) >= 2) =>
        LET declared == Declared
        IN  \A j \in 1..Len(problem.rows) :
                \A h \in 1..Len(problem.rows[j].ind) : problem.rows[j].ind[h] \in declared

\* C6 as claimed: the same for every len(branching) >= 1
C6_Original ==
    (AssemblyEnded /\ Len(branching) >= 1) =>
        LET declared == Declared
        IN  \A j \in 1..Len(problem.rows) :
                \A h \in 1..Len(problem.rows[j].ind) : problem.rows[j].ind[h] \in declared

\* the final nodes hang directly below the root, every family of rows emitted
C6_Witness ==
    /\ IsRpo /\ wcvar_minimizer = "no" /\ pc = "solve" /\ Len(branching) = 2
    /\ \E j \in 1..Len(problem.rows) : Mentions(problem.rows[j], "w_0_" \o instruments[1])
    /\ \E j \in 1..Len(problem.rows) :
         Mentions(problem.rows[j], WeightName(scenario_names[1], instruments[1], "0"))

\* variables.add has just run
VariablesAdded == pc = "t0"

\* C7: in both functions the lower-bound array and the upper-bound array have
\* exactly as many entries as all_variables, for bounds given as pairs of
\* one-element lists.
C7_BoundsAsLongAsNames ==
    VariablesAdded =>
        /\ Len(problem.lb) = Len(problem.names)
        /\ Len(problem.ub) = Len(problem.names)

C7_Witness ==
    /\ fn = "return_maximisation" /\ pc = "t0" /\ Len(branching) >= 3
    /\ Len(instruments) >= 2 /\ Len(problem.names) > 1 + 3 * Len(instruments)
    /\ Len(weight_bounds[1]) = 1 /\ Len(buy_bounds[1]) = 1 /\ Len(sell_bounds[1]) = 1

\* the rows over buys and sells of t=0 only
T0BalanceRows ==
    RowsWhere(LAMBDA row :
        /\ \E i \in InstrumentSet : Mentions(row, "b_0_" \o i)
        /\ \A i \in InstrumentSet : ~Mentions(row, "w_0_" \o i))

\* C8: the t=0 balance constraint of both functions is a single equality with
\* coefficient +1 on every b_0_<instrument>, -1 on every s_0_<instrument>, no
\* other variable, and right-hand side 1 minus the sum of initial_portfolio.
C8_T0Balance ==
    AllRowsAdded =>
        /\ Cardinality(T0BalanceRows) = 1
        /\ \A j \in T0BalanceRows :
             LET row == problem.rows[j]
             IN  /\ row.sense = "E"
                 /\ Range(row.ind) = {"b_0_" \o i : i \in InstrumentSet}
                                       \cup {"s_0_" \o i : i \in InstrumentSet}
                 /\ Len(row.ind) = 2 * Len(instruments)
                 /\ \A i \in InstrumentSet :
                      /\ Coef(row, "b_0_" \o i) = One
                      /\ Coef(row, "s_0_" \o i) = -One
                 /\ row.rhs = One - SumSeq(initial_portfolio)

C8_Witness ==
    /\ pc = "solve" /\ Len(instruments) >= 2 /\ Len(scenario_names) >= 2
    /\ SumSeq(initial_portfolio) > 0
    /\ T0BalanceRows # {}

BalanceRowsOf(k, n) ==
    LET buys == {BuyName(k, i, n) : i \in InstrumentSet}
        weights == {WeightName(k, i, n) : i \in InstrumentSet}
    IN  RowsWhere(LAMBDA row :
            /\ \E b \in buys : Mentions(row, b)
            /\ \A w \in weights : ~Mentions(row, w))

\* C9: for every tree k and internal node n exactly one balance row is
\* emitted, an equality with right-hand side 0 forcing the buys at (k, n)
\* over all instruments to equal the sells; no balance row is emitted for a
\* final node.
C9_BalancePerInternalNode ==
    /\ AllRowsAdded =>
         \A k \in ProblemTrees : \A n \in InternalNodesOf(k) :
             /\ Cardinality(BalanceRowsOf(k, n)) = 1
             /\ \A j \in BalanceRowsOf(k, n) :
                  LET row == problem.rows[j]
                  IN  /\ row.sense = "E"
                      /\ row.rhs = 0
                      /\ Range(row.ind) =
                           {BuyName(k, i, n) : i \in InstrumentSet}
                             \cup {SellName(k, i, n) : i \in InstrumentSet}
                      /\ Len(row.ind) = 2 * Len(instruments)
                      /\ \A i \in InstrumentSet :
                           /\ Coef(row, BuyName(k, i, n)) = One
                           /\ Coef(row, SellName(k, i, n)) = -One
    /\ AssemblyEnded =>
         \A k \in Range(scenario_names) : \A n \in FinalNodesOf(k) :
             LET name == "k" \o k \o "_s" \o n \o "_balance_constraint"
                 trades == {BuyName(k, i, n) : i \in InstrumentSet}
                             \cup {SellName(k, i, n) : i \in InstrumentSet}
             IN  RowsWhere(LAMBDA row :
                     row.name = name \/ \E v \in trades : Mentions(row, v)) = {}

C9_Witness ==
    /\ IsRpo /\ pc = "solve" /\ Len(scenario_names) >= 2 /\ Len(branching) >= 3
    /\ \A k \in ProblemTrees : \A n \in InternalNodesOf(k) : BalanceRowsOf(k, n) # {}

\* C10: robust_portfolio_optimisation declares the t=0 weight, buy and sell
\* variables exactly once per instrument whatever the number of trees; one
\* weight, one buy and one sell variable per (tree, instrument, internal
\* node); one z per (tree, final node); one var per tree; one wcvar; and
\* nothing else.
C10_VariablesDeclaredOnce ==
    (IsRpo /\ VariablesAdded) =>
        LET names == problem.names
            nK == Cardinality(ProblemTrees)
            nI == Cardinality(InstrumentSet)
            nN == Cardinality(InternalNodesOf(scenario_names[1]))
            nF == Cardinality(FinalNodesOf(scenario_names[1]))
        IN  /\ Count(names, "wcvar") = 1
            /\ \A i \in InstrumentSet :
                 /\ Count(names, "w_0_" \o i) = 1
                 /\ Count(names, "b_0_" \o i) = 1
                 /\ Count(names, "s_0_" \o i) = 1
            /\ \A k \in ProblemTrees :
                 /\ Count(names, "var_" \o k) = 1
                 /\ \A s \in FinalNodesOf(k) : Count(names, ZName(k, s)) = 1
                 /\ \A i \in InstrumentSet : \A n \in InternalNodesOf(k) :
                      /\ Count(names, WeightName(k, i, n)) = 1
                      /\ Count(names, BuyName(k, i, n)) = 1
                      /\ Count(names, SellName(k, i, n)) = 1
            /\ Len(names) = 1 + nK + nK * nF + 3 * nI + 3 * nK * nI * nN

C10_Witness ==
    /\ IsRpo /\ pc = "t0" /\ Len(scenario_names) >= 2 /\ Len(instruments) >= 2
    /\ Len(branching) >= 3 /\ Count(problem.names, "w_0_" \o instruments[2]) = 1

\* the rows over weights of tree k alone: no buy, sell, z, var, wcvar or
\* opt_return beside them
TerminalRowsOf(k) ==
    LET weights == {WeightName(k, i, n) : i \in InstrumentSet, n \in InternalNodesOf(k)}
    IN  RowsWhere(LAMBDA row : \A h \in 1..Len(row.ind) : row.ind[h] \in weights)

\* C11: robust_portfolio_optimisation emits the terminal return constraint as
\* a lower-bound threshold, one row per tree with sense >= and right-hand side
\* return_target, when wcvar_minimizer is 'no', and no terminal return
\* constraint for any other value of the flag.
C11_ReturnThresholdOnlyInNoMode ==
    (IsRpo /\ AllRowsAdded) =>
        \A k \in ProblemTrees :
            IF wcvar_minimizer = "no"
            THEN /\ Cardinality(TerminalRowsOf(k)) = 1
                 /\ \A j \in TerminalRowsOf(k) :
                      /\ problem.rows[j].sense = "G"
                      /\ problem.rows[j].rhs = return_target
            ELSE TerminalRowsOf(k) = {}

\* the threshold rows of two trees, in the mode 'no'
C11_Witness ==
    /\ IsRpo /\ pc = "solve" /\ wcvar_minimizer = "no"
    /\ Len(scenario_names) >= 2 /\ Len(branching) >= 3
    /\ \A k \in ProblemTrees : TerminalRowsOf(k) # {}

\* SUM over the final nodes s below p of cum_probability(s) * return(s, i), in
\* tree k
ExpectedReturnBelow(k, i, p) ==
    LET table == scenarios_dict[k]
        c == CHOOSE col \in 1..Len(instruments) : instruments[col] = i
    IN  SumSeq([r \in 1..Len(table) |->
                  IF Len(table[r].node) = Len(branching) /\ ParentOf(table[r].node) = p
                  THEN Mul(table[r].ret[c], table[r].cum_probability)
                  ELSE 0])

OptReturnRows == RowsWhere(LAMBDA row : Mentions(row, "opt_return"))

\* the name belongs to the CVaR formulation: wcvar, var_<k> or z_k<k>_s<s>
IsCvarName(name) ==
    \/ name = "wcvar"
    \/ Len(name) >= 4 /\ SubSeq(name, 1, 4) = "var_"
    \/ Len(name) >= 2 /\ SubSeq(name, 1, 2) = "z_"

C13_W0VectorExtracted ==
    (IsRpo /\ pc = "returned" /\ outcome = "optimal") =>
        LET names == ResultFields.w_0_variables
            values == ResultFields.w_0_values
        IN  /\ names.kind = "list" /\ values.kind = "list"
            /\ Len(names.items) = Len(instruments)
            /\ Range(names.items) = {"w_0_" \o i : i \in InstrumentSet}
            /\ Len(values.items) = Len(names.items)
            /\ \A j \in 1..Len(names.items) : values.items[j] = ValueOf(names.items[j])

\* the number of problems a call builds and solves
NrProblems == IF IsRpo THEN 1 ELSE Len(scenario_names)

\* C14 (amended): LP-file export is optional only when solver is not
\* 'gurobi': when to_save is not 'yes' and solver is not 'gurobi', a call to
\* either function writes no file; with solver 'gurobi' the call writes the
\* LP file once for every problem it solves, whatever to_save is, and once
\* more when to_save is 'yes'.
C14_NoFileUnlessSavedOrGurobi ==
    /\ (to_save # "yes" /\ solver # "gurobi") => lp_writes = 0
    /\ (pc = "returned" /\ solver # "gurobi" /\ to_save = "yes") => lp_writes = 1
    /\ (pc = "returned" /\ solver = "gurobi") =>
          lp_writes = NrProblems + (IF to_save = "yes" THEN 1 ELSE 0)

\* C14 as claimed: when to_save is not 'yes' a call writes no file, for every
\* choice of solver
C14_Original == to_save # "yes" => lp_writes = 0

\* return_maximisation returned from CPLEX without having written a file
C14_Witness ==
    /\ pc = "returned" /\ ~IsRpo /\ solver = "cplex" /\ to_save = "no"
    /\ Len(scenario_names) >= 2 /\ lp_writes = 0

\* the rows over the t=0 weight and the t=0 buy of instrument i
T0RowsOf(i) ==
    LET w == "w_0_" \o i
        b == "b_0_" \o i
    IN  RowsWhere(LAMBDA row : Mentions(row, w) /\ Mentions(row, b))

\* C15: for each instrument i at position j, the t=0 row of both functions is
\* the equality w_0_i - (1 - cost_to_buy) * b_0_i + (1 + cost_to_sell) * s_0_i
\* = initial_portfolio[j], with exactly one such row per instrument.
C15_T0WeightRows ==
    AllRowsAdded =>
        \A j \in 1..Len(instruments) :
            LET i == instruments[j]
            IN  /\ Cardinality(T0RowsOf(i)) = 1
                /\ \A h \in T0RowsOf(i) :
                     LET row == problem.rows[h]
                     IN  /\ row.sense = "E"
                         /\ row.rhs = initial_portfolio[j]
                         /\ Len(row.ind) = 3
                         /\ Range(row.ind) = {"w_0_" \o i, "b_0_" \o i, "s_0_" \o i}
                         /\ Coef(row, "w_0_" \o i) = One
                         /\ Coef(row, "b_0_" \o i) = -(One - cost_to_buy)
                         /\ Coef(row, "s_0_" \o i) = One + cost_to_sell

\* two instruments with a portfolio to start from, and costs that differ
C15_Witness ==
    /\ pc = "solve" /\ Len(instruments) >= 2 /\ cost_to_buy # cost_to_sell
    /\ initial_portfolio[2] > 0
    /\ \A j \in 1..Len(instruments) : T0RowsOf(instruments[j]) # {}

\* one step of a single pass: variables only into a problem without rows,
\* rows only into a problem with its variables and before the backend ran,
\* the backend only once and on the assembled problem, nothing added after it
OnePassStep ==
    /\ (problem'.names # problem.names /\ problem'.names # <<>>) =>
          (problem.rows = <<>> /\ problem'.rows = <<>>)
    /\ (problem'.rows # problem.rows /\ problem'.rows # <<>>) =>
          /\ problem.names # <<>> /\ problem'.names = problem.names
          /\ submitted = <<>> /\ submitted' = <<>>
    /\ (submitted' # submitted /\ submitted' # <<>>) =>
          /\ submitted = <<>> /\ Len(submitted') = 1
          /\ problem.rows # <<>> /\ problem' = problem
    /\ (submitted # <<>> /\ submitted' # <<>>) => problem' = problem

\* C16: assembly then solve is one pass: in every invocation all variables
\* are declared before the first constraint row is added, every row is added
\* before the solver is invoked, the solver is invoked at most once per
\* problem, and no variable or constraint is added after the solve.
C16_AssembleThenSolveOnce == [][OnePassStep]_vars

\* return_maximisation returned after its second problem was solved
C16_Witness ==
    /\ pc = "returned" /\ ~IsRpo /\ scenario = 2
    /\ Len(submitted) = 1 /\ problem.rows # <<>> /\ problem.names # <<>>

\* the names a problem of return_maximisation built from tree k may hold
NamesOfTree(k) ==
    {"opt_return"}
        \cup {"w_0_" \o i : i \in InstrumentSet}
        \cup {"b_0_" \o i : i \in InstrumentSet}
        \cup {"s_0_" \o i : i \in InstrumentSet}
        \cup {WeightName(k, i, n) : i \in InstrumentSet, n \in InternalNodesOf(k)}
        \cup {BuyName(k, i, n) : i \in InstrumentSet, n \in InternalNodesOf(k)}
        \cup {SellName(k, i, n) : i \in InstrumentSet, n \in InternalNodesOf(k)}

\* C17: the assembled problem depends only on the arguments of the call: a
\* call of robust_portfolio_optimisation builds the variable list, bounds,
\* objective and rows, in the same order, that the latest call with the same
\* arguments built, whatever was invoked in between; and in
\* return_maximisation the problem built for one tree holds no variable or
\* constraint of any other tree.
C17_ProblemDependsOnArgumentsOnly ==
    /\ (IsRpo /\ AssemblyEnded /\ previous.kind = "call"
            /\ previous.wcvar_minimizer = wcvar_minimizer) =>
          problem = previous.problem
    /\ (~IsRpo /\ AllRowsAdded) =>
          \A k \in ProblemTrees :
              LET allowed == NamesOfTree(k)
                  nI == Cardinality(InstrumentSet)
                  nN == Cardinality(InternalNodesOf(k))
              IN  /\ Len(problem.names) = Cardinality(allowed)
                  /\ \A j \in 1..Len(problem.names) : problem.names[j] \in allowed
                  /\ Len(problem.rows) = nI + 1 + nI * nN + nN + 1
                  /\ \A j \in 1..Len(problem.rows) :
                       \A h \in 1..Len(problem.rows[j].ind) :
                           problem.rows[j].ind[h] \in allowed

\* robust_portfolio_optimisation called again with the same flag after a call
\* that built a problem, the second problem assembled
C17_Witness ==
    /\ IsRpo /\ pc = "solve" /\ previous.kind = "call"
    /\ previous.wcvar_minimizer = wcvar_minimizer
    /\ previous.problem.rows # <<>> /\ Len(scenario_names) >= 2

\* C18: both functions leave their inputs unchanged: scenarios_dict (every
\* tree's nodes, returns and cumulative probabilities), instruments,
\* initial_portfolio and the three bounds arguments keep their values through
\* every step of a call.
C18_InputsUnchanged ==
    [][UNCHANGED <<scenarios_dict, instruments, initial_portfolio, sell_bounds,
                   buy_bounds, weight_bounds>>]_vars

\* return_maximisation returned, having read a portfolio and several trees
C18_Witness ==
    /\ pc = "returned" /\ ~IsRpo /\ Len(scenario_names) >= 2
    /\ initial_portfolio[1] > 0 /\ DOMAIN result.value = DOMAIN scenarios_dict

\* the value is the objective of the problem built from tree t alone
IsObjectiveOfTree(value, t) ==
    /\ value.kind = "number"
    /\ value.items[1][2] = <<t>>

\* C19: return_maximisation returns a mapping with exactly one entry per tree
\* of scenarios_dict; the entry of tree t is the objective value of the
\* problem built from tree t alone, or the not-a-number sentinel when that
\* problem was not solved to optimality; no entry keeps its empty-list
\* placeholder.
C19_OneResultPerTree ==
    (pc = "returned" /\ ~IsRpo) =>
        /\ result.kind = "results"
        /\ DOMAIN result.value = DOMAIN scenarios_dict
        /\ \A t \in DOMAIN result.value :
             /\ result.value[t].kind # "list"
             /\ result.value[t] = NaN \/ IsObjectiveOfTree(result.value[t], t)
        /\ LET last == scenario_names[Len(scenario_names)]
           IN  result.value[last] = NaN <=> outcome # "optimal"

\* two trees, the second one solved
C19_Witness ==
    /\ pc = "returned" /\ ~IsRpo /\ Len(scenario_names) >= 2
    /\ IsObjectiveOfTree(result.value[scenario_names[2]], scenario_names[2])

\* C20: in the transaction row of tree k, instrument i and internal node n
\* the previous-period weight is the shared w_0_i when n has length 1 and
\* otherwise the weight of the same tree and instrument at the parent node
\* n[:-1]; its coefficient is the return of i at node n in tree k, and the
\* row is return * w_prev + (1 - cost_to_buy) * b(n) - (1 + cost_to_sell) * s(n)
\* - w(n) = 0.
C20_PreviousWeightTimesReturn ==
    AllRowsAdded =>
        \A k \in ProblemTrees, i \in InstrumentSet :
            \A n \in InternalNodesOf(k) :
                LET w_prev == IF Len(n) = 1 THEN "w_0_" \o i
                              ELSE WeightName(k, i, SubSeq(n, 1, Len(n) - 1))
                IN  /\ Cardinality(TransactionRowsOf(k, i, n)) = 1
                    /\ \A j \in TransactionRowsOf(k, i, n) :
                        /\ problem.rows[j].ind =
                             <<w_prev, BuyName(k, i, n), SellName(k, i, n),
                               WeightName(k, i, n)>>
                        /\ problem.rows[j].val =
                             <<ReturnOf(k, n, i), One - cost_to_buy,
                               -(One + cost_to_sell), -One>>
                        /\ problem.rows[j].sense = "E"
                        /\ problem.rows[j].rhs = 0

\* robust_portfolio_optimisation with two trees: a first-stage row on the
\* shared w_0 and a row below it on the parent's weight, both in the second
\* tree
C20_Witness ==
    /\ IsRpo /\ pc = "solve" /\ Len(scenario_names) >= 2 /\ Len(branching) >= 3
    /\ TransactionRowsOf(scenario_names[2], instruments[1], "0") # {}
    /\ TransactionRowsOf(scenario_names[2], instruments[1], "00") # {}

\* the rows on the z variable of (k, s) other than the worst-case-CVaR row
ZRowsOf(k, s) ==
    LET zname == ZName(k, s)
    IN  RowsWhere(LAMBDA row : Mentions(row, zname) /\ ~Mentions(row, "wcvar"))

\* C21: for every tree k and every final node s, robust_portfolio_optimisation
\* emits exactly one z constraint: z_k_s + initial_wealth * SUM over
\* instruments i of return(k,s,i) * weight(k, i, parent(s)) + var_k
\* >= initial_wealth, where parent(s) is s without its last character; no z
\* constraint refers to a variable of another tree.
C21_ZConstraintPerFinalNode ==
    (IsRpo /\ AllRowsAdded) =>
        \A k \in ProblemTrees : \A s \in FinalNodesOf(k) :
            /\ Cardinality(ZRowsOf(k, s)) = 1
            /\ \A j \in ZRowsOf(k, s) :
                 LET row == problem.rows[j]
                     p == SubSeq(s, 1, Len(s) - 1)
                 IN  /\ row.sense = "G"
                     /\ row.rhs = initial_wealth
                     /\ Len(row.ind) = 2 + Len(instruments)
                     /\ Range(row.ind) = {ZName(k, s), "var_" \o k}
                          \cup {WeightName(k, i, p) : i \in InstrumentSet}
                     /\ Coef(row, ZName(k, s)) = One
                     /\ Coef(row, "var_" \o k) = One
                     /\ \A i \in InstrumentSet :
                          Coef(row, WeightName(k, i, p))
                            = (initial_wealth * ReturnOf(k, s, i)) \div One

\* two trees, final nodes below the first stage, and a wealth other than 1
C21_Witness ==
    /\ IsRpo /\ pc = "solve" /\ Len(scenario_names) >= 2 /\ Len(branching) >= 3
    /\ Len(instruments) >= 2 /\ initial_wealth # One
    /\ \A s \in FinalNodesOf(scenario_names[2]) : ZRowsOf(scenario_names[2], s) # {}

\* the terminal return row of tree k: the threshold row of
\* robust_portfolio_optimisation, the opt_return row of return_maximisation
TerminalReturnRowsOf(k) == IF IsRpo THEN TerminalRowsOf(k) ELSE OptReturnRows

\* in row, every weight of tree k at a parent of a final node appears exactly
\* once, with sign * SUM over the final nodes s below the parent of
\* return(k,s,i) * cum_probability(k,s), beside `others` further variables
IsGroupedTerminalRow(row, k, sign, others) ==
    LET parents == {ParentOf(s) : s \in FinalNodesOf(k)}
    IN  /\ Len(row.ind) = others + Cardinality(InstrumentSet) * Cardinality(parents)
        /\ \A i \in InstrumentSet, p \in parents :
             /\ Count(row.ind, WeightName(k, i, p)) = 1
             /\ Coef(row, WeightName(k, i, p)) = sign * ExpectedReturnBelow(k, i, p)

\* C22 (amended): in the terminal return row of tree k each parent weight
\* variable w_k_<instrument>_s<p> appears exactly once; in
\* robust_portfolio_optimisation its coefficient is the sum over all final
\* nodes s whose parent is p of return(k,s,instrument) * cum_probability(k,s)
\* and the row contains no other variable; in return_maximisation its
\* coefficient is minus that sum and the row contains opt_return, with
\* coefficient 1, and no other variable.
C22_TerminalRowGroupedByParent ==
    AllRowsAdded =>
        \A k \in ProblemTrees :
            /\ (IsRpo /\ wcvar_minimizer = "no") => TerminalReturnRowsOf(k) # {}
            /\ ~IsRpo => TerminalReturnRowsOf(k) # {}
            /\ \A j \in TerminalReturnRowsOf(k) :
                 IF IsRpo
                 THEN IsGroupedTerminalRow(problem.rows[j], k, 1, 0)
                 ELSE /\ IsGroupedTerminalRow(problem.rows[j], k, -1, 1)
                      /\ Count(problem.rows[j].ind, "opt_return") = 1
                      /\ Coef(problem.rows[j], "opt_return") = One

\* C22 as claimed: the coefficient is the sum itself in the terminal return
\* row of both functions
C22_Original ==
    AllRowsAdded =>
        \A k \in ProblemTrees :
            \A j \in TerminalReturnRowsOf(k) :
                IsGroupedTerminalRow(problem.rows[j], k, 1, IF IsRpo THEN 0 ELSE 1)

\* the threshold row of the second tree, with two final nodes below each
\* parent and two parents
C22_Witness ==
    /\ IsRpo /\ pc = "solve" /\ wcvar_minimizer = "no"
    /\ Len(scenario_names) >= 2 /\ Len(branching) >= 3 /\ Len(instruments) >= 2
    /\ \E j \in TerminalReturnRowsOf(scenario_names[2]) :
         Len(problem.rows[j].ind) = 2 * Len(instruments)

\* the value the solution CPLEX holds gives to a variable
SolutionAt(name) == get_values[IndexOf(problem.names, name)]

\* var_k + (1/(1-beta)) * SUM over the final nodes s of
\* cum_probability(k,s) * z_k_s, at the solution
CVaRAt(k) ==
    LET table == scenarios_dict[k]
    IN  SolutionAt("var_" \o k)
          + SumSeq([r \in 1..Len(table) |->
                      IF Len(table[r].node) = Len(branching)
                      THEN (InvOneMinusBeta \div One)
                             * ((table[r].cum_probability
                                   * SolutionAt(ZName(k, table[r].node))) \div One)
                      ELSE 0])

\* SUM over the final nodes s and the instruments i of
\* cum_probability(k,s) * return(k,s,i) * weight(k, i, parent(s)), at the
\* solution
TerminalReturnAt(k) ==
    LET table == scenarios_dict[k]
    IN  SumSeq([r \in 1..Len(table) |->
                  IF Len(table[r].node) = Len(branching)
                  THEN SumSeq([c \in 1..Len(instruments) |->
                           (Mul(table[r].ret[c], table[r].cum_probability)
                              * SolutionAt(WeightName(k, instruments[c],
                                                      ParentOf(table[r].node))))
                             \div One])
                  ELSE 0])

WorstTrees ==
    {k \in Range(scenario_names) : \A h \in Range(scenario_names) : CVaRAt(h) <= CVaRAt(k)}

C24_MinimiseWcvarAlone ==
    (IsRpo /\ problem.names # <<>>) =>
        /\ problem.sense = "minimize"
        /\ Count(problem.names, "wcvar") = 1
        /\ Len(problem.obj) = Len(problem.names)
        /\ \A j \in 1..Len(problem.names) :
             problem.obj[j] = IF problem.names[j] = "wcvar" THEN One ELSE 0

\* the problem of two trees handed to a backend, in the mode 'yes'
C24_Witness ==
    /\ IsRpo /\ pc = "after_solve" /\ wcvar_minimizer = "yes"
    /\ Len(scenario_names) >= 2 /\ Len(instruments) >= 2 /\ Len(branching) >= 2
    /\ Len(problem.obj) > 3 /\ problem.sense = "minimize"

StartsWith(name, prefix) ==
    Len(name) >= Len(prefix) /\ SubSeq(name, 1, Len(prefix)) = prefix

\* the pair [lower, upper] the category of a variable is to get
BoundsOfCategory(name) ==
    IF name = "wcvar" \/ name = "opt_return" THEN <<0, cplex_infinity>>
    ELSE IF StartsWith(name, "var_") \/ StartsWith(name, "z_") THEN <<0, Float1e20>>
    ELSE IF StartsWith(name, "w_") THEN <<weight_bounds[1][1], weight_bounds[2][1]>>
    ELSE IF StartsWith(name, "b_") THEN <<buy_bounds[1][1], buy_bounds[2][1]>>
    ELSE IF StartsWith(name, "s_") THEN <<sell_bounds[1][1], sell_bounds[2][1]>>
    ELSE <<>>

\* C25: bounds are position-aligned with names: in the arrays passed to
\* variables.add every weight variable (t=0 and per node) gets weight_bounds,
\* every buy variable buy_bounds, every sell variable sell_bounds, wcvar
\* [0, infinity], each var and z variable [0, 1e20], and opt_return
\* [0, infinity]; no variable receives the bound of another category.
C25_BoundsAlignedWithNames ==
    VariablesAdded =>
        /\ Len(problem.lb) = Len(problem.names)
        /\ Len(problem.ub) = Len(problem.names)
        /\ \A j \in 1..Len(problem.names) :
             <<problem.lb[j], problem.ub[j]>> = BoundsOfCategory(problem.names[j])

\* variables of every category declared, with three pairs of bounds that
\* differ from each other
C25_Witness ==
    /\ IsRpo /\ pc = "t0" /\ Len(scenario_names) >= 2 /\ Len(instruments) >= 2
    /\ Len(branching) >= 3
    /\ buy_bounds # sell_bounds /\ buy_bounds # weight_bounds
    /\ sell_bounds # weight_bounds
    /\ \E j \in 1..Len(problem.names) :
         StartsWith(problem.names[j], "s_k") /\ problem.ub[j] = sell_bounds[2][1]

\* C26: in every execution of robust_portfolio_optimisation and
\* return_maximisation, each write of the LP file to results/<folder> happens
\* only after the call has ensured that directory exists (checked it and
\* created it if missing), for every choice of solver and to_save; so no
\* write is attempted on a missing directory.
C26_WriteAfterDirectoryEnsured ==
    [][/\ lp_writes' > lp_writes => dir_checked'
       /\ (pc' = "raised" /\ result'.value = "CplexSolverError" /\ pc = "solve")
            => dir_exists]_vars
====
